---- MODULE Spec2Model ----
(***************************************************************************)
(* Blackrock slave bootstrap (src/src/blackrock/blackrock.c++).            *)
(*                                                                         *)
(* Two parts of the program are modelled:                                  *)
(*  - Main (the `slave` sub-command): option parsing in command-line       *)
(*    order, setLogSink, killExisting, setBindIp and runSlave, one action  *)
(*    per system call that other processes can observe;                    *)
(*  - MachineImpl: becomeStorage / becomeWorker inside the daemon.         *)
(* The operating system is modelled by what the calls rely on: flock(2)    *)
(* locks belong to an open file description shared across fork(2),         *)
(* open(O_CREAT|O_EXCL), rename(2), /proc listing and kill(2).             *)
(***************************************************************************)
EXTENDS Integers, Sequences, FiniteSets, TLC

\* Number of `blackrock slave` launches on the machine (each gets a fresh pid).
NLaunch == 2
\* Number of distinct network addresses a bind or log-sink argument resolves to.
NAddr == 2
\* Number of write(2) chunks in which one address record reaches the file.
RecordChunks == 2
\* Number of remote calls delivered to one MachineImpl.
MaxCalls == 5
\* Number of register/unregister operations performed on the backend sets.
MaxOps == 3
\* Number of distinct capabilities a peer may register.
NCaps == 2

Launchers == 1..NLaunch
DaemonOf(p) == NLaunch + p
Daemons == {DaemonOf(p) : p \in Launchers}
LauncherOf(d) == d - NLaunch
OtherPid == 2 * NLaunch + 1
Pids == Launchers \cup Daemons \cup {OtherPid}
Addrs == 1..NAddr

\* /proc/<pid>/comm: every process of this binary is called blackrock.
Comm(q) == IF q = OtherPid THEN "init" ELSE "blackrock"

\* Command lines of `blackrock slave`: the options in the order given; the
\* <bind-ip> argument is handled after all options, then runSlave.
OptionOrders == {<<>>, <<"l">>, <<"r">>, <<"l", "r">>, <<"r", "l">>}

VARIABLES
    \* ---- operating system ----
    alive,        \* pids present in /proc
    signalled,    \* pids with a SIGTERM pending
    ofdRefs,      \* open file description of the pidfile opened by launcher l -> pids holding an fd to it
    locked,       \* open file descriptions holding flock(LOCK_EX) on /var/run/blackrock-slave
    payload,      \* content of /var/run/blackrock-slave: <<>> or <<address>>
    tempIno,      \* inode named LOG_ADDRESS_FILE~ (0: no such file)
    logIno,       \* inode named LOG_ADDRESS_FILE  (0: no such file)
    inoContent,   \* inode (named after its creator) -> chunks written so far
    \* ---- one Main per launch ----
    pc,           \* position of launcher p
    todo,         \* options not yet processed
    bindAddress,  \* Main::bindAddress (0: unset)
    killedExisting, \* Main::killedExisting
    loggingName,  \* Main::loggingName is set
    logAddr,      \* address resolved by setLogSink (0: none)
    scan,         \* killExisting: /proc entries still to visit
    sent,         \* pids this launch delivered SIGTERM to
    stdout,       \* what the launch wrote to standard output (<<>>: nothing)
    outcome,      \* how the launch ended
    observed,     \* the record the log shipper read from LOG_ADDRESS_FILE
    daemon,       \* state of the daemon forked by launcher p
    \* ---- MachineImpl ----
    storageInfo,  \* kj::Maybe<kj::Own<StorageInfo>>: <<>> or <<bundle>>
    worker,       \* kj::Maybe<Worker::Client>: 0 or the object
    nextObj,      \* next heap object identity
    mkdirCalls,   \* number of times the storage directory tree was created
    storageBuilt, \* number of StorageInfo objects constructed
    workerBuilt,  \* number of WorkerImpl objects constructed
    calls,        \* the calls served so far with their results, in call order
    \* ---- BackendSetImpl objects ----
    members,      \* set object -> its entries [handle, cap]
    nextHandle,   \* next registration handle
    ops           \* the register/unregister operations performed, in order

osVars == <<alive, signalled, ofdRefs, locked, payload>>
fileVars == <<tempIno, logIno, inoContent>>
mainVars == <<pc, todo, bindAddress, killedExisting, loggingName, logAddr, scan,
              sent, stdout, outcome, observed, daemon>>
setVars == <<members, nextHandle, ops>>
roleVars == <<storageInfo, worker, nextObj, mkdirCalls, storageBuilt, workerBuilt,
              calls, setVars>>
vars == <<osVars, fileVars, mainVars, roleVars>>

----------------------------------------------------------------------------
(* Operating system                                                        *)

Min(S) == CHOOSE x \in S : \A y \in S : x <= y

\* A process holds the lock when it has an fd to a locked open file description.
HoldsLock(q) == \E l \in locked : q \in ofdRefs[l]

\* close(2) of every fd of q at process exit.
RefsAfterExit(q) == [l \in Launchers |-> ofdRefs[l] \ {q}]

\* Variant: the lock belongs to the process that took it (as a POSIX record
\* lock would) and goes when that process exits.
LocksOwnedByProcess(q) == {l \in locked : l # q /\ RefsAfterExit(q)[l] # {}}

\* flock: the lock lives as long as some fd to its open file description is open.
LocksAfterExit(q) == {l \in locked : RefsAfterExit(q)[l] # {}}

\* flock(fd, LOCK_EX) can be granted to open file description l.
LockFree(l) == locked \subseteq {l}

\* Variant: the temporary file is opened without O_EXCL.
CanAlwaysCreateTemp == TRUE

\* open(tempname, O_WRONLY | O_CREAT | O_EXCL) succeeds.
CanCreateTemp == tempIno = 0

\* A record is complete when all its chunks are there and come from one write.
Complete(c) == Len(c) = RecordChunks /\ \A i \in 1..Len(c) : c[i] = c[1]

\* Process q leaves the system (exit, uncaught exception, or death by signal).
ProcessExit(q) ==
    /\ alive' = alive \ {q}
    /\ signalled' = signalled \ {q}
    /\ ofdRefs' = RefsAfterExit(q)
    /\ locked' = LocksAfterExit(q)

----------------------------------------------------------------------------
(* Main: argument parsing                                                  *)

\* kj::MainBuilder calls the option callbacks in command-line order, then
\* the <bind-ip> callback, then callAfterParsing.
Dispatch(t) ==
    IF t = <<>> THEN "setBindIp"
    ELSE IF Head(t) = "l" THEN "setLogSink"
    ELSE "killExisting"

TypeOK ==
    /\ alive \subseteq Pids
    /\ signalled \subseteq alive
    /\ locked \subseteq Launchers
    /\ payload \in {<<>>} \cup {<<a>> : a \in Addrs}
    /\ tempIno \in 0..NLaunch
    /\ logIno \in 0..NLaunch

Init ==
    /\ alive = {OtherPid}
    /\ signalled = {}
    /\ ofdRefs = [l \in Launchers |-> {}]
    /\ locked = {}
    /\ payload = <<>>
    /\ tempIno = 0
    /\ logIno = 0
    /\ inoContent = [l \in Launchers |-> <<>>]
    /\ pc = [p \in Launchers |-> "idle"]
    /\ todo = [p \in Launchers |-> <<>>]
    /\ bindAddress = [p \in Launchers |-> 0]
    /\ killedExisting = [p \in Launchers |-> FALSE]
    /\ loggingName = [p \in Launchers |-> FALSE]
    /\ logAddr = [p \in Launchers |-> 0]
    /\ scan = [p \in Launchers |-> {}]
    /\ sent = [p \in Launchers |-> {}]
    /\ stdout = [p \in Launchers |-> <<>>]
    /\ outcome = [p \in Launchers |-> "none"]
    /\ observed = [p \in Launchers |-> <<>>]
    /\ daemon = [p \in Launchers |-> "none"]
    /\ storageInfo = <<>>
    /\ worker = 0
    /\ nextObj = 1
    /\ mkdirCalls = 0
    /\ storageBuilt = 0
    /\ workerBuilt = 0
    /\ calls = <<>>
    /\ members = <<>>
    /\ nextHandle = 1
    /\ ops = <<>>

\* The launcher process ends with `how`; its fds are closed.
Terminate(p, how) ==
    /\ ProcessExit(p)
    /\ pc' = [pc EXCEPT ![p] = "exited"]
    /\ outcome' = [outcome EXCEPT ![p] = how]
    /\ scan' = [scan EXCEPT ![p] = {}]

\* execve of `blackrock slave [options] <bind-ip>`; the kernel hands out
\* pids in increasing order.
Launch(p) ==
    /\ pc[p] = "idle"
    /\ \A q \in Launchers : q < p => pc[q] # "idle"
    /\ \E t \in OptionOrders :
        /\ todo' = [todo EXCEPT ![p] = t]
        /\ pc' = [pc EXCEPT ![p] = Dispatch(t)]
    /\ alive' = alive \cup {p}
    /\ UNCHANGED <<signalled, ofdRefs, locked, payload, fileVars, roleVars>>
    /\ UNCHANGED <<bindAddress, killedExisting, loggingName, logAddr, scan, sent,
                   stdout, outcome, observed, daemon>>

\* An option callback returned true: go on with the next option or argument.
OptionDone(p) ==
    /\ todo' = [todo EXCEPT ![p] = Tail(todo[p])]
    /\ pc' = [pc EXCEPT ![p] = Dispatch(Tail(todo[p]))]


\* Main fields and outputs a terminating or scanning step leaves alone.
mainRest == <<todo, bindAddress, killedExisting, loggingName, logAddr, sent, stdout,
              observed, daemon>>

\* Variant: the copy of the pidfile to stdout, after the fork, fails as well
\* and the process just ends.
IoStepsAfterFork == {"ls_open", "ls_write", "killExisting", "runSlave", "flock",
                     "ftruncate", "bind", "writePayload", "dump"}

\* Steps whose system call can fail with an I/O error (KJ_SYSCALL, raiiOpen,
\* FdOutputStream::write, listDirectory): the exception ends the process.
IoSteps == {"ls_open", "ls_write", "killExisting", "runSlave", "flock", "ftruncate",
            "bind", "writePayload"}

\* setLogSink or setBindIp rejects its argument: the address does not resolve,
\* or the test connection to the log sink fails.
ConfigError(p) ==
    /\ pc[p] \in {"setLogSink", "setBindIp"}
    /\ Terminate(p, "configError")
    /\ UNCHANGED <<payload, fileVars, mainRest, roleVars>>

\* Variant: the temporary file is unlinked when its writer fails.
TempRemovedOnFailure(p) == IF tempIno = p THEN 0 ELSE tempIno

\* The temporary name after setLogSink ended with an exception: no path of
\* setLogSink unlinks it.
TempAfterFailure(p) == tempIno

\* A system call of the launch fails: the exception propagates out of main.
IoError(p) ==
    /\ pc[p] \in IoSteps
    /\ Terminate(p, "ioError")
    /\ tempIno' = TempAfterFailure(p)
    /\ UNCHANGED <<payload, logIno, inoContent, mainRest, roleVars>>

----------------------------------------------------------------------------
(* Main::setLogSink                                                        *)

\* SimpleAddress::lookup, socket, connect: the sink address is reachable.
SetLogSink(p) ==
    /\ pc[p] = "setLogSink"
    /\ \E a \in Addrs : logAddr' = [logAddr EXCEPT ![p] = a]
    /\ pc' = [pc EXCEPT ![p] = "ls_open"]
    /\ UNCHANGED <<osVars, fileVars, roleVars>>
    /\ UNCHANGED <<todo, bindAddress, killedExisting, loggingName, scan, sent, stdout,
                   outcome, observed, daemon>>

\* raiiOpen(tempname, O_WRONLY | O_CREAT | O_EXCL, 0600).
LsOpen(p) ==
    /\ pc[p] = "ls_open"
    /\ \/ /\ CanCreateTemp
          /\ tempIno' = p
          /\ inoContent' = [inoContent EXCEPT ![p] = <<>>]
          /\ pc' = [pc EXCEPT ![p] = "ls_write"]
          /\ UNCHANGED <<osVars, logIno, scan, outcome>>
       \/ /\ ~CanCreateTemp
          /\ Terminate(p, "ioError")
          /\ tempIno' = TempAfterFailure(p)
          /\ UNCHANGED <<payload, logIno, inoContent>>
    /\ UNCHANGED <<mainRest, roleVars>>

\* The record is fully written and the stream closed.
WriteDone(p) == Len(inoContent[p]) = RecordChunks

\* FdOutputStream::write(&address, sizeof(address)): one write(2) per chunk,
\* through the fd, that is to the inode that was opened.
LsWrite(p) ==
    /\ pc[p] = "ls_write"
    /\ ~WriteDone(p)
    /\ inoContent' = [inoContent EXCEPT ![p] = Append(@, logAddr[p])]
    /\ UNCHANGED <<osVars, tempIno, logIno, mainVars, roleVars>>

\* rename(tempname, LOG_ADDRESS_FILE), then loggingName = name; return true.
\* rename acts on whatever inode the temporary name refers to.
LsRename(p) ==
    /\ pc[p] = "ls_write"
    /\ WriteDone(p)
    /\ \/ /\ tempIno # 0
          /\ logIno' = tempIno
          /\ tempIno' = 0
          /\ loggingName' = [loggingName EXCEPT ![p] = TRUE]
          /\ OptionDone(p)
          /\ UNCHANGED <<osVars, scan, outcome>>
       \/ /\ tempIno = 0
          /\ Terminate(p, "ioError")
          /\ UNCHANGED <<payload, tempIno, logIno, loggingName, todo>>
    /\ UNCHANGED <<inoContent, roleVars>>
    /\ UNCHANGED <<bindAddress, killedExisting, logAddr, sent, stdout, observed, daemon>>

----------------------------------------------------------------------------
(* Main::killExisting                                                      *)

\* sandstorm::listDirectory("/proc"): the pids present now (own pid included).
KillExisting(p) ==
    /\ pc[p] = "killExisting"
    /\ scan' = [scan EXCEPT ![p] = alive]
    /\ pc' = [pc EXCEPT ![p] = "ke_open"]
    /\ UNCHANGED <<osVars, fileVars, roleVars>>
    /\ UNCHANGED <<todo, bindAddress, killedExisting, loggingName, logAddr, sent, stdout,
                   outcome, observed, daemon>>

\* The entry the loop visits next (/proc lists pids in increasing order).
Target(p) == Min(scan[p])

\* Variant: the own pid is not excluded.
ConsidersAll(p, q) == TRUE

\* Whether killExisting looks at entry q at all: `if (*pid != me)`.
Considers(p, q) == q # p

\* Loop head: own pid skipped; raiiOpenIfExists("/proc/<pid>/comm") gives
\* nothing when the process has gone since the listing.
KeOpen(p) ==
    /\ pc[p] = "ke_open"
    /\ scan[p] # {}
    /\ IF Considers(p, Target(p)) /\ Target(p) \in alive
         THEN /\ pc' = [pc EXCEPT ![p] = "ke_read"]
              /\ scan' = scan
         ELSE /\ pc' = pc
              /\ scan' = [scan EXCEPT ![p] = @ \ {Target(p)}]
    /\ UNCHANGED <<osVars, fileVars, roleVars>>
    /\ UNCHANGED <<todo, bindAddress, killedExisting, loggingName, logAddr, sent, stdout,
                   outcome, observed, daemon>>

\* trim(readAll(fd)) == "blackrock"; reading comm of a process that has been
\* reaped fails with ESRCH.
KeRead(p) ==
    /\ pc[p] = "ke_read"
    /\ \/ /\ Target(p) \in alive
          /\ IF Comm(Target(p)) = "blackrock"
               THEN /\ pc' = [pc EXCEPT ![p] = "ke_kill"]
                    /\ scan' = scan
               ELSE /\ pc' = [pc EXCEPT ![p] = "ke_open"]
                    /\ scan' = [scan EXCEPT ![p] = @ \ {Target(p)}]
          /\ UNCHANGED <<osVars, outcome>>
       \/ /\ Target(p) \notin alive
          /\ Terminate(p, "ioError")
          /\ UNCHANGED payload
    /\ UNCHANGED <<fileVars, mainRest, roleVars>>

\* KJ_SYSCALL(kill(*pid, SIGTERM)): ESRCH when the process has gone.
KeKill(p) ==
    /\ pc[p] = "ke_kill"
    /\ \/ /\ Target(p) \in alive
          /\ signalled' = signalled \cup {Target(p)}
          /\ sent' = [sent EXCEPT ![p] = @ \cup {Target(p)}]
          /\ scan' = [scan EXCEPT ![p] = @ \ {Target(p)}]
          /\ pc' = [pc EXCEPT ![p] = "ke_open"]
          /\ UNCHANGED <<alive, ofdRefs, locked, outcome>>
       \/ /\ Target(p) \notin alive
          /\ Terminate(p, "ioError")
          /\ UNCHANGED sent
    /\ UNCHANGED <<payload, fileVars, roleVars>>
    /\ UNCHANGED <<todo, bindAddress, killedExisting, loggingName, logAddr, stdout,
                   observed, daemon>>

\* End of the loop: killedExisting = true; return true.
KeDone(p) ==
    /\ pc[p] = "ke_open"
    /\ scan[p] = {}
    /\ killedExisting' = [killedExisting EXCEPT ![p] = TRUE]
    /\ OptionDone(p)
    /\ UNCHANGED <<osVars, fileVars, roleVars>>
    /\ UNCHANGED <<bindAddress, loggingName, logAddr, scan, sent, stdout, outcome,
                   observed, daemon>>

----------------------------------------------------------------------------
(* Main::setBindIp                                                         *)

\* getInterfaceAddress / lookup resolved the argument.
SetBindIp(p) ==
    /\ pc[p] = "setBindIp"
    /\ \E a \in Addrs : bindAddress' = [bindAddress EXCEPT ![p] = a]
    /\ pc' = [pc EXCEPT ![p] = "runSlave"]
    /\ UNCHANGED <<osVars, fileVars, roleVars>>
    /\ UNCHANGED <<todo, killedExisting, loggingName, logAddr, scan, sent, stdout,
                   outcome, observed, daemon>>

----------------------------------------------------------------------------
(* Main::runSlave                                                          *)

\* raiiOpen("/var/run/blackrock-slave", O_RDWR | O_CREAT | O_CLOEXEC): a new
\* open file description, owned by this process alone.
OpenPidfile(p) ==
    /\ pc[p] = "runSlave"
    /\ ofdRefs' = [ofdRefs EXCEPT ![p] = {p}]
    /\ pc' = [pc EXCEPT ![p] = "flock"]
    /\ UNCHANGED <<alive, signalled, locked, payload, fileVars, roleVars>>
    /\ UNCHANGED <<todo, bindAddress, killedExisting, loggingName, logAddr, scan, sent,
                   stdout, outcome, observed, daemon>>

\* Variant: LOCK_NB is always passed.
NeverBlocking(p) == FALSE

\* LOCK_EX | (killedExisting ? 0 : LOCK_NB): the request blocks iff killedExisting.
Blocking(p) == killedExisting[p]

\* flock(pidfile, ...): granted when no other open file description holds the
\* lock; otherwise a blocking request waits and a non-blocking one gives l < 0.
Flock(p) ==
    /\ pc[p] = "flock"
    /\ \/ /\ LockFree(p)
          /\ locked' = locked \cup {p}
          /\ pc' = [pc EXCEPT ![p] = "ftruncate"]
       \/ /\ ~LockFree(p)
          /\ ~Blocking(p)
          /\ locked' = locked
          /\ pc' = [pc EXCEPT ![p] = "already"]
    /\ UNCHANGED <<alive, signalled, ofdRefs, payload, fileVars, roleVars>>
    /\ UNCHANGED <<todo, bindAddress, killedExisting, loggingName, logAddr, scan, sent,
                   stdout, outcome, observed, daemon>>

\* Variant: the copy starts at the end of the file.
DumpFromEnd == <<>>

\* dumpFile(pidfile, STDOUT_FILENO): sendfile from offset 0 to end of file.
DumpFile == payload

\* l < 0: dumpFile(pidfile, STDOUT_FILENO); context.exit().
AlreadyRunning(p) ==
    /\ pc[p] = "already"
    /\ stdout' = [stdout EXCEPT ![p] = DumpFile]
    /\ Terminate(p, "alreadyRunning")
    /\ UNCHANGED <<payload, fileVars, roleVars>>
    /\ UNCHANGED <<todo, bindAddress, killedExisting, loggingName, logAddr, sent,
                   observed, daemon>>

\* The pidfile after KJ_SYSCALL(ftruncate(pidfile, 0)).
Truncated == <<>>

\* KJ_SYSCALL(ftruncate(pidfile, 0)), right after the lock is taken.
Ftruncate(p) ==
    /\ pc[p] = "ftruncate"
    /\ payload' = Truncated
    /\ pc' = [pc EXCEPT ![p] = IF loggingName[p] THEN "logsink" ELSE "bind"]
    /\ UNCHANGED <<alive, signalled, ofdRefs, locked, fileVars, roleVars>>
    /\ UNCHANGED <<todo, bindAddress, killedExisting, loggingName, logAddr, scan, sent,
                   stdout, outcome, observed, daemon>>

\* What a reader of LOG_ADDRESS_FILE gets: the content of the inode the name
\* refers to (<<>> when there is no such file).
ReadRecord == IF logIno = 0 THEN <<>> ELSE inoContent[logIno]

\* sendStderrToLogSink(*n, LOG_ADDRESS_FILE, "/var/log"): the log shipper
\* reads the sink address from the published record.
LogSink(p) ==
    /\ pc[p] = "logsink"
    /\ observed' = [observed EXCEPT ![p] = ReadRecord]
    /\ pc' = [pc EXCEPT ![p] = "bind"]
    /\ UNCHANGED <<osVars, fileVars, roleVars>>
    /\ UNCHANGED <<todo, bindAddress, killedExisting, loggingName, logAddr, scan, sent,
                   stdout, outcome, daemon>>

\* kj::setupAsyncIo(); VatNetwork network(..., bindAddress): the endpoint is
\* bound and listening.
Bind(p) ==
    /\ pc[p] = "bind"
    /\ pc' = [pc EXCEPT ![p] = "writePayload"]
    /\ UNCHANGED <<osVars, fileVars, roleVars>>
    /\ UNCHANGED <<todo, bindAddress, killedExisting, loggingName, logAddr, scan, sent,
                   stdout, outcome, observed, daemon>>

\* network.getSelf(): the VatPath of the bound endpoint, serialized.
VatPath(p) == <<bindAddress[p]>>

\* capnp::writeMessageToFd(pidfile, vatPath): written at offset 0.
WritePayload(p) ==
    /\ pc[p] = "writePayload"
    /\ payload' = VatPath(p)
    /\ pc' = [pc EXCEPT ![p] = "fork"]
    /\ UNCHANGED <<alive, signalled, ofdRefs, locked, fileVars, roleVars>>
    /\ UNCHANGED <<todo, bindAddress, killedExisting, loggingName, logAddr, scan, sent,
                   stdout, outcome, observed, daemon>>

\* The fds of the pidfile the forked child holds: fork(2) duplicates the
\* parent's fds (O_CLOEXEC acts on exec only, and the child never execs).
Inherited(p) == ofdRefs[p] \cup {DaemonOf(p)}

\* sandstorm::Subprocess daemon([&]() -> int {...}): fork.
Fork(p) ==
    /\ pc[p] = "fork"
    /\ alive' = alive \cup {DaemonOf(p)}
    /\ ofdRefs' = [ofdRefs EXCEPT ![p] = Inherited(p)]
    /\ daemon' = [daemon EXCEPT ![p] = "starting"]
    /\ pc' = [pc EXCEPT ![p] = "dump"]
    /\ UNCHANGED <<signalled, locked, payload, fileVars, roleVars>>
    /\ UNCHANGED <<todo, bindAddress, killedExisting, loggingName, logAddr, scan, sent,
                   stdout, outcome, observed>>

\* Parent: dumpFile(pidfile, STDOUT_FILENO); context.exit().
DumpAndExit(p) ==
    /\ pc[p] = "dump"
    /\ stdout' = [stdout EXCEPT ![p] = DumpFile]
    /\ Terminate(p, "launched")
    /\ UNCHANGED <<payload, fileVars, roleVars>>
    /\ UNCHANGED <<todo, bindAddress, killedExisting, loggingName, logAddr, sent,
                   observed, daemon>>

\* Child: setsid, dup2, makeRpcServer(network, MachineImpl), NEVER_DONE.wait.
DaemonServe(p) ==
    /\ daemon[p] = "starting"
    /\ daemon' = [daemon EXCEPT ![p] = "serving"]
    /\ UNCHANGED <<osVars, fileVars, roleVars>>
    /\ UNCHANGED <<pc, todo, bindAddress, killedExisting, loggingName, logAddr, scan,
                   sent, stdout, outcome, observed>>

\* The daemon process of launcher p ends.
DaemonExit(p) ==
    /\ ProcessExit(DaemonOf(p))
    /\ daemon' = [daemon EXCEPT ![p] = "dead"]
    /\ UNCHANGED <<payload, fileVars, roleVars>>
    /\ UNCHANGED <<pc, todo, bindAddress, killedExisting, loggingName, logAddr, scan,
                   sent, stdout, outcome, observed>>

\* Default disposition of SIGTERM in a launcher: the process terminates.
LauncherDies(p) ==
    /\ p \in signalled
    /\ Terminate(p, "killed")
    /\ UNCHANGED <<payload, fileVars, mainRest, roleVars>>

\* Default disposition of SIGTERM in the daemon: the process terminates.
DaemonDies(p) ==
    /\ DaemonOf(p) \in signalled
    /\ DaemonExit(p)

\* The daemon is stopped from outside (operator, crash): "termination is only
\* via external signal".
DaemonStopped(p) ==
    /\ DaemonOf(p) \in alive
    /\ DaemonOf(p) \notin signalled
    /\ DaemonExit(p)

SupervisorStep(p) ==
    \/ Launch(p)
    \/ ConfigError(p)
    \/ IoError(p)
    \/ SetLogSink(p)
    \/ LsOpen(p)
    \/ LsWrite(p)
    \/ LsRename(p)
    \/ KillExisting(p)
    \/ KeOpen(p)
    \/ KeRead(p)
    \/ KeKill(p)
    \/ KeDone(p)
    \/ SetBindIp(p)
    \/ OpenPidfile(p)
    \/ Flock(p)
    \/ AlreadyRunning(p)
    \/ Ftruncate(p)
    \/ LogSink(p)
    \/ Bind(p)
    \/ WritePayload(p)
    \/ Fork(p)
    \/ DumpAndExit(p)
    \/ DaemonServe(p)
    \/ LauncherDies(p)
    \/ DaemonDies(p)
    \/ DaemonStopped(p)

Next == \E p \in Launchers : SupervisorStep(p)

Spec == Init /\ [][Next]_vars

----------------------------------------------------------------------------
(* Restart scenario: one running instance, one new launch, no faults       *)

\* The launcher of the instance that is running when the scenario starts.
Prior == Min(Launchers)

\* The one launch of the scenario.
NewLaunch == Prior + 1

\* The machine with one instance serving: its launcher took the lock,
\* published the identity, wrote it to stdout and exited; the daemon holds
\* the lock through the inherited fd.
LiveInit ==
    /\ alive = {OtherPid, DaemonOf(Prior)}
    /\ signalled = {}
    /\ ofdRefs = [l \in Launchers |-> IF l = Prior THEN {DaemonOf(Prior)} ELSE {}]
    /\ locked = {Prior}
    /\ \E a \in Addrs :
          /\ payload = <<a>>
          /\ bindAddress = [p \in Launchers |-> IF p = Prior THEN a ELSE 0]
          /\ stdout = [p \in Launchers |-> IF p = Prior THEN <<a>> ELSE <<>>]
    /\ tempIno = 0
    /\ logIno = 0
    /\ inoContent = [l \in Launchers |-> <<>>]
    /\ pc = [p \in Launchers |-> IF p = Prior THEN "exited" ELSE "idle"]
    /\ todo = [p \in Launchers |-> <<>>]
    /\ killedExisting = [p \in Launchers |-> FALSE]
    /\ loggingName = [p \in Launchers |-> FALSE]
    /\ logAddr = [p \in Launchers |-> 0]
    /\ scan = [p \in Launchers |-> {}]
    /\ sent = [p \in Launchers |-> {}]
    /\ outcome = [p \in Launchers |-> IF p = Prior THEN "launched" ELSE "none"]
    /\ observed = [p \in Launchers |-> <<>>]
    /\ daemon = [p \in Launchers |-> IF p = Prior THEN "serving" ELSE "none"]
    /\ storageInfo = <<>>
    /\ worker = 0
    /\ nextObj = 1
    /\ mkdirCalls = 0
    /\ storageBuilt = 0
    /\ workerBuilt = 0
    /\ calls = <<>>
    /\ members = <<>>
    /\ nextHandle = 1
    /\ ops = <<>>

\* The steps of a launcher process when no system call fails.
LauncherStep(p) ==
    \/ Launch(p)
    \/ SetLogSink(p)
    \/ LsOpen(p)
    \/ LsWrite(p)
    \/ LsRename(p)
    \/ KillExisting(p)
    \/ KeOpen(p)
    \/ KeRead(p)
    \/ KeKill(p)
    \/ KeDone(p)
    \/ SetBindIp(p)
    \/ OpenPidfile(p)
    \/ Flock(p)
    \/ AlreadyRunning(p)
    \/ Ftruncate(p)
    \/ LogSink(p)
    \/ Bind(p)
    \/ WritePayload(p)
    \/ Fork(p)
    \/ DumpAndExit(p)

LiveNext ==
    \/ LauncherStep(NewLaunch)
    \/ DaemonServe(NewLaunch)
    \/ DaemonDies(Prior)

\* The kernel schedules every runnable process, and a process with a pending
\* SIGTERM and the default disposition terminates.
LiveSpec ==
    /\ LiveInit
    /\ [][LiveNext]_vars
    /\ WF_vars(LauncherStep(NewLaunch))
    /\ WF_vars(DaemonServe(NewLaunch))
    /\ WF_vars(DaemonDies(Prior))

\* The new launch serves as the only instance.
NewServesAlone ==
    /\ daemon[NewLaunch] = "serving"
    /\ locked = {NewLaunch}
    /\ Daemons \cap alive = {DaemonOf(NewLaunch)}

\* C6: a launch that ran killExisting (the restart flag) never takes the
\* AlreadyRunning exit, and with the prior instance dying of the signal it
\* eventually holds the lock and serves as the only instance.
C6_RestartAcquires ==
    /\ [](\A p \in Launchers :
            killedExisting[p] => pc[p] # "already" /\ outcome[p] # "alreadyRunning")
    /\ (killedExisting[NewLaunch] ~> NewServesAlone)

\* The restart launch signalled the prior daemon, which died, and now serves.
C6_Witness ==
    /\ killedExisting[NewLaunch]
    /\ DaemonOf(Prior) \in sent[NewLaunch]
    /\ daemon[Prior] = "dead"
    /\ outcome[NewLaunch] = "launched"
    /\ NewServesAlone

----------------------------------------------------------------------------
(* Properties of the launch protocol, checked under Spec                   *)

\* C1: at most one open file description holds the daemon lock, at most one
\* daemon process exists, and a daemon holds the lock taken by its launcher
\* from the fork until it exits or is killed, also after the launcher exited.
C1_OneLockHolder ==
    /\ Cardinality(locked) <= 1
    /\ Cardinality(Daemons \cap alive) <= 1
    /\ \A p \in Launchers :
          DaemonOf(p) \in alive => p \in locked /\ HoldsLock(DaemonOf(p))

\* A daemon serves with its launcher gone while another launch, with the
\* restart flag, waits for the lock.
C1_Witness ==
    \E p, q \in Launchers :
        /\ daemon[p] = "serving"
        /\ outcome[p] = "launched"
        /\ HoldsLock(DaemonOf(p))
        /\ pc[q] = "flock"
        /\ killedExisting[q]

C3_State ==
    \A p \in Launchers :
        (pc[p] = "already" \/ outcome[p] = "alreadyRunning") =>
            ~killedExisting[p] /\ p \notin locked /\ daemon[p] = "none"

C3_Step ==
    \A p \in Launchers :
        /\ (/\ pc[p] = "flock"
            /\ ~killedExisting[p]
            /\ locked \ {p} # {}
            /\ pc'[p] \notin {"flock", "exited"})
           => pc'[p] = "already" /\ UNCHANGED <<locked, ofdRefs, payload>>
        /\ (pc[p] = "already" /\ outcome'[p] = "alreadyRunning")
           => /\ stdout'[p] = payload
              /\ \A h \in locked : payload = <<bindAddress[h]>> =>
                    stdout'[p] = <<bindAddress[h]>>
              /\ UNCHANGED <<payload, locked, daemon>>
              /\ \A l \in Launchers \ {p} : ofdRefs'[l] = ofdRefs[l]

\* C3: a launch without the restart flag that finds the lock held fails the
\* non-blocking acquisition, writes the lock payload as it is (the holder's
\* identity A once published) to its standard output, exits without a
\* daemon, and changes neither the payload nor who holds the lock.
C3_AlreadyRunningReportsHolder == []C3_State /\ [][C3_Step]_vars

\* A second launch ended AlreadyRunning having written the identity of the
\* serving lock holder, which is still the payload.
C3_Witness ==
    \E p, h \in Launchers :
        /\ outcome[p] = "alreadyRunning"
        /\ daemon[h] = "serving"
        /\ h \in locked
        /\ payload = <<bindAddress[h]>>
        /\ stdout[p] = payload

\* C4: whenever the daemon lock is held, the payload is the identity of the
\* holder, and a launch that ended AlreadyRunning wrote a complete identity.
C4_HeldLockHasHolderIdentity ==
    /\ \A h \in locked : payload = <<bindAddress[h]>>
    /\ \A p \in Launchers : outcome[p] = "alreadyRunning" => stdout[p] # <<>>

C5_State ==
    \A p \in Launchers :
        /\ p \notin sent[p]
        /\ \A q \in sent[p] : Comm(q) = "blackrock"
        /\ killedExisting[p] => pc[p] # "already" /\ outcome[p] # "alreadyRunning"
        /\ p \in locked => todo[p] = <<>> /\ scan[p] = {}
        /\ (p \in locked /\ pc[p] \in {"fork", "dump", "exited"}) =>
              payload = <<bindAddress[p]>>
        /\ Cardinality(locked) <= 1

C5_Step ==
    \A p \in Launchers :
        \* every other blackrock process of the listing is signalled, unless gone
        /\ \A q \in scan[p] :
              (q \notin scan'[p] /\ outcome'[p] = "none") =>
                  q = p \/ q \notin alive \/ Comm(q) # "blackrock" \/ q \in sent'[p]
        \* the signals precede the lock request
        /\ pc[p] \in {"runSlave", "flock"} \/ p \in locked => sent'[p] = sent[p]
        \* the lock is granted only once nobody holds it
        /\ (p \notin locked /\ p \in locked') =>
              locked = {} /\ \A q \in alive : ~HoldsLock(q)
        \* the payload is overwritten with the new identity
        /\ (pc[p] = "writePayload" /\ pc'[p] = "fork") =>
              payload' = <<bindAddress[p]>>

\* C5: a launch with the restart flag signals every other blackrock process
\* of its listing and never its own pid, all before it asks for the lock;
\* the lock request is blocking and is granted only after the prior holder
\* has released it; then the payload is overwritten with the new identity.
C5_RestartOrder == []C5_State /\ [][C5_Step]_vars

\* A restart launch signalled the daemon of a prior instance with another
\* identity, took the lock after that daemon died and published its own.
C5_Witness ==
    \E p, h \in Launchers :
        /\ killedExisting[p]
        /\ DaemonOf(h) \in sent[p]
        /\ stdout[h] = <<bindAddress[h]>>
        /\ daemon[h] = "dead"
        /\ bindAddress[h] # bindAddress[p]
        /\ p \in locked
        /\ payload = <<bindAddress[p]>>
        /\ daemon[p] = "serving"

C7_State ==
    /\ logIno # 0 => Complete(inoContent[logIno])
    /\ \A p \in Launchers :
          (loggingName[p] /\ pc[p] \in {"bind", "writePayload", "fork", "dump"}) =>
              Complete(observed[p])

C7_Step == logIno # 0 => inoContent'[logIno] = inoContent[logIno]

\* C7: the file at the well-known path, once it exists, always holds a
\* complete record, the content of a published file never changes, and what
\* a reader gets is a complete record, whatever the writers do or wherever
\* they stop.
C7_AtomicReplace == []C7_State /\ [][C7_Step]_vars

\* A complete record is published while the temporary file holds the
\* half-written record of a writer that died.
C7_Witness ==
    /\ logIno # 0
    /\ tempIno # 0
    /\ tempIno # logIno
    /\ Len(inoContent[tempIno]) \in 1..(RecordChunks - 1)
    /\ pc[tempIno] = "exited"
    /\ \E p \in Launchers : Complete(observed[p])

\* C10: a launch that ended with a configuration error has signalled no
\* process, has not replaced the published-address record, has not taken the
\* lock and has written no payload.
C10_ConfigErrorChangesNothing ==
    \A p \in Launchers :
        outcome[p] = "configError" =>
            /\ sent[p] = {}
            /\ ~loggingName[p]
            /\ logIno # p
            /\ ofdRefs[p] = {}

\* The endpoint of launch p is bound: VatNetwork has been constructed.
Bound(p) == pc[p] \in {"writePayload", "fork", "dump"} \/ daemon[p] # "none"

C12_Step ==
    \A p \in Launchers :
        \* a step of the lock owner that changes the payload
        /\ (p \in locked /\ pc'[p] # pc[p] /\ payload' # payload) => Bound(p)
        \* the fork
        /\ (daemon[p] = "none" /\ daemon'[p] # "none") => Bound(p)

\* C12: a launch that holds the lock changes the payload in no way before
\* its endpoint is bound, so the previous owner's payload stays as it was
\* until then, and the daemon is forked only after the endpoint is bound.
C12_BindBeforePayloadChange == [][C12_Step]_vars

\* C13: a launch without the restart flag that went on to fork its daemon
\* had written its serialized identity to its standard output before the
\* fork, and a launch that ended launched has published and written it.
C13_StdoutBeforeFork ==
    \A p \in Launchers :
        ~killedExisting[p] =>
            /\ daemon[p] # "none" => stdout[p] = VatPath(p)
            /\ outcome[p] = "launched" =>
                  /\ stdout[p] = VatPath(p)
                  /\ daemon[p] # "none"

C14_State ==
    \A p \in Launchers :
        outcome[p] = "ioError" =>
            /\ daemon[p] = "none"
            /\ DaemonOf(p) \notin alive
            /\ p \notin locked
            /\ ofdRefs[p] = {}

C14_Step ==
    \A p \in Launchers :
        (pc[p] \in {"runSlave", "flock", "ftruncate", "bind", "writePayload"}
            /\ outcome'[p] = "ioError") =>
                /\ daemon'[p] = "none"
                /\ locked' = locked \ {p}
                /\ ofdRefs'[p] = {}
                /\ DaemonOf(p) \notin alive'

AtGoneEntry(p) ==
    /\ pc[p] \in {"ke_open", "ke_read", "ke_kill"}
    /\ scan[p] # {}
    /\ Target(p) \notin alive

C15_Step ==
    \A p \in Launchers :
        (/\ AtGoneEntry(p)
         /\ pc'[p] # pc[p] \/ scan'[p] # scan[p]
         /\ outcome'[p] # "killed")
        => /\ outcome'[p] = "none"
           /\ pc'[p] = "ke_open"
           /\ scan'[p] = scan[p] \ {Target(p)}
           /\ sent'[p] = sent[p]

\* C15: when the process of a listed entry has gone, before its name is read
\* or between the name check and the signal, killExisting passes over the
\* entry and goes on with the rest of the listing; the launch does not fail.
C15_ScanToleratesGoneProcess == [][C15_Step]_vars

\* C16: a launch that ended AlreadyRunning has not replaced the
\* published-address record, whatever its options were.
C16_AlreadyRunningKeepsRecord ==
    \A p \in Launchers :
        outcome[p] = "alreadyRunning" => ~loggingName[p] /\ logIno # p

\* C17: two launches with the restart flag do not end up having terminated
\* each other with no daemon forked by either.
C17_RestartsDoNotKillEachOther ==
    \A p, q \in Launchers :
        (p # q /\ q \in sent[p] /\ p \in sent[q]) =>
            ~(/\ outcome[p] = "killed" /\ daemon[p] = "none"
              /\ outcome[q] = "killed" /\ daemon[q] = "none")

C18_Step ==
    \A p \in Launchers :
        \* the temporary file exists: the publish fails and changes no file
        /\ (pc[p] = "ls_open" /\ tempIno # 0 /\ pc'[p] # pc[p]) =>
              /\ pc'[p] = "exited"
              /\ ~loggingName'[p]
              /\ UNCHANGED <<tempIno, logIno, inoContent>>
        \* a publish that ends between create and rename leaves the file
        /\ (pc[p] = "ls_write" /\ pc'[p] = "exited") =>
              tempIno' = tempIno /\ tempIno # 0
        \* a file left by a writer that has ended stays, and nothing is
        \* published any more
        /\ (tempIno = p /\ pc[p] = "exited") =>
              /\ UNCHANGED <<tempIno, logIno>>
              /\ loggingName' = loggingName

\* C18: setLogSink fails, with the published record and the temporary file
\* as they were, whenever the temporary file exists; a publish that fails
\* or dies after creating the temporary file leaves it there; and from then
\* on no publish succeeds.
C18_LeftoverTempBlocksPublish == [][C18_Step]_vars

\* A writer died with the record half written; a later launch with a
\* log-sink option resolved its address and failed, publishing nothing.
C18_Witness ==
    \E p, q \in Launchers :
        /\ tempIno = p
        /\ pc[p] = "exited"
        /\ Len(inoContent[p]) \in 1..(RecordChunks - 1)
        /\ q # p
        /\ logAddr[q] # 0
        /\ outcome[q] = "ioError"
        /\ ~loggingName[q]
        /\ logIno = 0

----------------------------------------------------------------------------
(* MachineImpl: the bootstrap capability of the daemon.  The event loop     *)
(* delivers one call at a time; each action is one call, start to return.  *)

\* Variant: the cached StorageInfo is not looked at.
StorageNeverCached == FALSE

\* KJ_IF_MAYBE(i, storageInfo): a StorageInfo is cached.
StorageCached == storageInfo # <<>>

\* Variant: the cached worker is not looked at.
WorkerNeverCached == FALSE

\* KJ_IF_MAYBE(w, worker): a worker capability is cached.
WorkerCached == worker # 0

\* Variant: one BackendSetImpl object serves as sibling set and as
\* hosted-restorer set.
NewStorageInfoOneSet ==
    [selfAsSibling |-> 0,
     rootSet |-> nextObj,
     restorer |-> 0,
     factory |-> nextObj + 1,
     siblingSet |-> nextObj + 2,
     hostedRestorerSet |-> nextObj + 2,
     gatewayRestorerSet |-> nextObj + 4]

\* StorageInfo(ioContext): the objects the constructor creates, numbered from
\* nextObj; selfAsSibling and restorer are null capabilities.
NewStorageInfo ==
    [selfAsSibling |-> 0,
     rootSet |-> nextObj,
     restorer |-> 0,
     factory |-> nextObj + 1,
     siblingSet |-> nextObj + 2,
     hostedRestorerSet |-> nextObj + 3,
     gatewayRestorerSet |-> nextObj + 4]

\* The results struct filled from *info.
StorageResults(info) ==
    [method |-> "becomeStorage",
     ok |-> TRUE,
     sibling |-> info.selfAsSibling,
     rootSet |-> info.rootSet,
     storageRestorer |-> info.restorer,
     storageFactory |-> info.factory,
     siblingSet |-> info.siblingSet,
     hostedRestorerSet |-> info.hostedRestorerSet,
     gatewayRestorerSet |-> info.gatewayRestorerSet]

\* context.getResults().setWorker(kj::mv(client)).
WorkerResults(client) == [method |-> "becomeWorker", ok |-> TRUE, worker |-> client]

\* The call ended with an exception, which the RPC system reports to the caller.
Failed(m) == [method |-> m, ok |-> FALSE]

\* Variant: the bundle is stored before its construction has finished.
CachedHalfBuilt == <<[NewStorageInfo EXCEPT !.rootSet = 0, !.factory = 0]>>

\* storageInfo once the StorageInfo constructor has thrown: the assignment
\* `storageInfo = kj::mv(ptr)` was never reached.
AfterFailedConstruct == storageInfo

CallsLeft == Len(calls) < MaxCalls

\* The three BackendSet members of StorageInfo and of the results struct.
SetNames == {"siblingSet", "hostedRestorerSet", "gatewayRestorerSet"}

\* kj::refcounted<BackendSetImpl<...>>(), three times: the set objects of a
\* new bundle, each without entries.
WithNewSets(info) ==
    [s \in DOMAIN members \cup {info[w] : w \in SetNames} |->
        IF s \in DOMAIN members THEN members[s] ELSE {}]

\* becomeStorage, every step of it succeeding.
BecomeStorage ==
    /\ CallsLeft
    /\ IF StorageCached
         THEN /\ calls' = Append(calls, StorageResults(storageInfo[1]))
              /\ UNCHANGED <<storageInfo, nextObj, mkdirCalls, storageBuilt, members>>
         ELSE /\ mkdirCalls' = mkdirCalls + 1
              /\ members' = WithNewSets(NewStorageInfo)
              /\ storageInfo' = <<NewStorageInfo>>
              /\ nextObj' = nextObj + 5
              /\ storageBuilt' = storageBuilt + 1
              /\ calls' = Append(calls, StorageResults(NewStorageInfo))
    /\ UNCHANGED <<worker, workerBuilt, nextHandle, ops>>
    /\ UNCHANGED <<osVars, fileVars, mainVars>>

\* becomeStorage with raiiOpen("/var/blackrock/storage") throwing inside the
\* StorageInfo constructor: the mkdir calls have been made, nothing is cached.
BecomeStorageThrows ==
    /\ CallsLeft
    /\ ~StorageCached
    /\ mkdirCalls' = mkdirCalls + 1
    /\ storageInfo' = AfterFailedConstruct
    /\ calls' = Append(calls, Failed("becomeStorage"))
    /\ UNCHANGED <<nextObj, storageBuilt, worker, workerBuilt, setVars>>
    /\ UNCHANGED <<osVars, fileVars, mainVars>>

\* becomeWorker.
BecomeWorker ==
    /\ CallsLeft
    /\ IF WorkerCached
         THEN /\ calls' = Append(calls, WorkerResults(worker))
              /\ UNCHANGED <<worker, nextObj, workerBuilt>>
         ELSE /\ worker' = nextObj
              /\ nextObj' = nextObj + 1
              /\ workerBuilt' = workerBuilt + 1
              /\ calls' = Append(calls, WorkerResults(nextObj))
    /\ UNCHANGED <<storageInfo, mkdirCalls, storageBuilt, setVars>>
    /\ UNCHANGED <<osVars, fileVars, mainVars>>

----------------------------------------------------------------------------
(* BackendSet: the registry behind the set capabilities of a storage reply *)

Caps == 1..NCaps

\* The successful becomeStorage replies: each is held by a caller.
Holders == {i \in DOMAIN calls : calls[i].method = "becomeStorage" /\ calls[i].ok}

\* The set object the capability `w` of reply i refers to.
SetOf(i, w) == calls[i][w]

\* snapshot(): a copy of the entries of set object s.
Snapshot(s) == IF s \in DOMAIN members THEN members[s] ELSE {}

OpsLeft == Len(ops) < MaxOps

\* register(capability) -> handle, through the capability `w` of reply i:
\* the entry is added under a new handle; there is no rejection.
Register(i, w, c) ==
    /\ OpsLeft
    /\ SetOf(i, w) \in DOMAIN members
    /\ members' = [members EXCEPT ![SetOf(i, w)] =
                        @ \cup {[handle |-> nextHandle, cap |-> c]}]
    /\ nextHandle' = nextHandle + 1
    /\ ops' = Append(ops, [op |-> "register", set |-> w, handle |-> nextHandle,
                           cap |-> c])
    /\ UNCHANGED <<storageInfo, worker, nextObj, mkdirCalls, storageBuilt,
                   workerBuilt, calls>>
    /\ UNCHANGED <<osVars, fileVars, mainVars>>

\* unregister(handle), through the capability `w` of reply i: the entry with
\* that handle goes; a handle the set does not hold changes nothing.
Unregister(i, w, h) ==
    /\ OpsLeft
    /\ SetOf(i, w) \in DOMAIN members
    /\ members' = [members EXCEPT ![SetOf(i, w)] = {e \in @ : e.handle # h}]
    /\ ops' = Append(ops, [op |-> "unregister", set |-> w, handle |-> h, cap |-> 0])
    /\ UNCHANGED <<storageInfo, worker, nextObj, mkdirCalls, storageBuilt,
                   workerBuilt, calls, nextHandle>>
    /\ UNCHANGED <<osVars, fileVars, mainVars>>

\* Some holder registers a capability with one of its sets.
RegisterAny == \E i \in Holders, w \in SetNames, c \in Caps : Register(i, w, c)

\* Some holder unregisters a handle, issued or not, from one of its sets.
UnregisterAny ==
    \E i \in Holders, w \in SetNames, h \in 1..nextHandle : Unregister(i, w, h)

\* The storage role is activated, by any number of callers, and the holders
\* of the replies use the sets.
SetNext ==
    \/ BecomeStorage
    \/ RegisterAny
    \/ UnregisterAny

SetSpec == Init /\ [][SetNext]_vars

RoleNext ==
    \/ BecomeStorage
    \/ BecomeStorageThrows
    \/ BecomeWorker

\* One MachineImpl from its construction on, under any sequence of calls.
RoleSpec == Init /\ [][RoleNext]_vars

----------------------------------------------------------------------------
(* Properties of MachineImpl, checked under RoleSpec                       *)

StorageCalls == {i \in DOMAIN calls : calls[i].method = "becomeStorage"}
StorageOk == {i \in StorageCalls : calls[i].ok}
StorageFailed == {i \in StorageCalls : ~calls[i].ok}
WorkerCalls == {i \in DOMAIN calls : calls[i].method = "becomeWorker"}

\* C2: every successful becomeStorage call returned the same rootSet, factory,
\* restorer, sibling and three backend sets, which are the cached ones, and
\* every becomeWorker call returned the same worker, which is the cached one:
\* a constructed role state is never cleared or replaced.
C2_SameInstanceEveryCall ==
    /\ \A i, j \in StorageOk : calls[i] = calls[j]
    /\ \A i, j \in WorkerCalls : calls[i].worker = calls[j].worker
    /\ \A i \in StorageOk :
          storageInfo # <<>> /\ calls[i] = StorageResults(storageInfo[1])
    /\ \A i \in WorkerCalls : worker # 0 /\ calls[i].worker = worker

\* Two becomeStorage calls and two becomeWorker calls have returned.
C2_Witness ==
    /\ Cardinality(StorageOk) >= 2
    /\ Cardinality(WorkerCalls) >= 2

\* C8: when activation succeeds, the storage directory tree is created once
\* and the StorageInfo (engine binding and three backend sets) is constructed
\* once, on the first becomeStorage call; the worker is constructed once, on
\* the first becomeWorker call; a call for one role constructs nothing of the
\* other role.
C8_ActivatedOnce ==
    /\ storageBuilt = (IF StorageOk # {} THEN 1 ELSE 0)
    /\ workerBuilt = (IF WorkerCalls # {} THEN 1 ELSE 0)
    /\ StorageFailed = {} => mkdirCalls = storageBuilt
    /\ storageInfo # <<>> <=> StorageOk # {}
    /\ worker # 0 <=> WorkerCalls # {}

\* becomeStorage, becomeWorker, becomeStorage were served in this order, all
\* successfully, with one directory creation.
C8_Witness ==
    /\ Len(calls) >= 3
    /\ calls[1] = StorageResults(storageInfo[1])
    /\ calls[2] = WorkerResults(worker)
    /\ calls[3] = StorageResults(storageInfo[1])
    /\ mkdirCalls = 1

\* C9: a becomeStorage call whose construction fails reports the failure and
\* caches nothing; as long as no call has succeeded nothing is cached, every
\* call that finds nothing cached runs the whole first-call activation again,
\* and a bundle that is returned is completely constructed.
C9_FailedActivationNotCached ==
    /\ StorageOk = {} => storageInfo = <<>>
    /\ \A i \in StorageFailed : \A j \in StorageOk : i < j
    /\ mkdirCalls = Cardinality(StorageFailed) + storageBuilt
    /\ \A i \in StorageOk :
          /\ calls[i].rootSet # 0
          /\ calls[i].storageFactory # 0
          /\ calls[i].siblingSet # 0
          /\ calls[i].hostedRestorerSet # 0
          /\ calls[i].gatewayRestorerSet # 0

\* A failed becomeStorage call was followed by calls the process still
\* served, among them a becomeStorage call that activated from scratch.
C9_Witness ==
    /\ \E i \in StorageFailed : \E j \in StorageOk : i < j
    /\ WorkerCalls # {}
    /\ mkdirCalls >= 2
    /\ storageBuilt = 1


\* The entries of set `w` according to the operations performed: those
\* registered with `w` and not unregistered from `w` afterwards.
Registered(w) ==
    {[handle |-> ops[k].handle, cap |-> ops[k].cap] :
        k \in {k \in DOMAIN ops :
                 /\ ops[k].op = "register"
                 /\ ops[k].set = w
                 /\ \A j \in (k + 1)..Len(ops) :
                       ~(/\ ops[j].op = "unregister"
                         /\ ops[j].set = w
                         /\ ops[j].handle = ops[k].handle)}}

\* C11: after any sequence of register and unregister operations on the sets
\* of the storage bundle, which start without entries, a snapshot taken
\* through any becomeStorage reply holds exactly the capabilities registered
\* with that set and not unregistered since; unregistering an absent handle
\* changes nothing, and every holder sees the same membership.
C11_SnapshotIsRegisteredMinusUnregistered ==
    \A i \in Holders : \A w \in SetNames : Snapshot(SetOf(i, w)) = Registered(w)

\* Two replies are held; a capability was registered with the sibling set,
\* an absent handle was unregistered from it, and the entry is still there.
C11_Witness ==
    /\ Cardinality(Holders) >= 2
    /\ Len(ops) >= 2
    /\ ops[1].op = "register" /\ ops[1].set = "siblingSet"
    /\ ops[2].op = "unregister" /\ ops[2].set = "siblingSet"
    /\ ops[2].handle # ops[1].handle
    /\ \A i \in Holders :
          Snapshot(SetOf(i, "siblingSet")) = {[handle |-> ops[1].handle, cap |-> ops[1].cap]}
============================================================================
